---- MODULE Spec2Model ----
(***************************************************************************)
(* Model of acdcli/cache/sync.py: the synchronisation of Amazon Cloud      *)
(* Drive node records with the local cache (folder rows, file rows, the    *)
(* parentage table and the checkpoint row of the metadata table).          *)
(*                                                                         *)
(* The committed content of the database is the state.  Every step of the  *)
(* model is one transaction of sync.py together with the Python code that  *)
(* leads up to it, so the states of a behaviour are exactly the committed  *)
(* states a reader of the database can see.                                *)
(***************************************************************************)
EXTENDS Integers, Sequences, FiniteSets, TLC

VARIABLES
    folders,    \* the rows of db.Folder
    files,      \* the rows of db.File
    parentage,  \* the rows of the parentage table: [parent, child]
    metadata,   \* the rows of db.Metadate: [key, value]
    now,        \* the value datetime.utcnow() returns
    pc,         \* the transaction the running call performs next, or "idle"
    call,       \* the running (or last) call and its arguments
    out,        \* what the running (or last) call returned, raised and logged
    pre         \* the database as the running (or last) call found it

vars == <<folders, files, parentage, metadata, now, pc, call, out, pre>>

-----------------------------------------------------------------------------
(* Bounds of the model *)

MaxBatch == 2       \* longest list handed to insert_nodes / _folders / _files
MaxParents == 2     \* longest 'parents' list of a record
MaxPurged == 2      \* longest list handed to remove_purged
MaxClock == 2       \* the clock stops ticking here

-----------------------------------------------------------------------------
(* Values *)

_CHECKPOINT_KEY == "checkpoint"

None == "None"                               \* Python's None
EMPTY_MD5 == "d41d8cd98f00b204e9800998ecf8427e"

Ids == {"a", "b"}
Names == {"n1", "n2"}
Tokens == {"X", "Y"}

\* iso_date.parse: the instant a timestamp string denotes (ticks of the clock)
parse(str_) ==
    CASE str_ = "2015-01-01T00:00:00.000Z" -> 0
      [] str_ = "2015-06-01T12:30:00.500Z" -> 1

\* every sequence over S of length at most n
SeqUpTo(S, n) == UNION {[1..k -> S] : k \in 0..n}

NodeIds(rows) == {r.id : r \in rows}

-----------------------------------------------------------------------------
(* The storage layer (acdcli.cache.db and the SQLAlchemy session) *)

\* db.Folder(id, name, created, modified, status), then f.updated = utcnow()
Folder(id, name, created, modified, status, updated) ==
    [id |-> id, name |-> name, created |-> created, modified |-> modified,
     status |-> status, updated |-> updated]

\* db.File(id, name, created, modified, md5, size, status), then f.updated
File(id, name, created, modified, md5, size, status, updated) ==
    [id |-> id, name |-> name, created |-> created, modified |-> modified,
     md5 |-> md5, size |-> size, status |-> status, updated |-> updated]

\* db.Folder.__eq__: content equality, 'updated' is not compared
FolderEq(f, ef) ==
    /\ f.id = ef.id
    /\ f.name = ef.name
    /\ f.created = ef.created
    /\ f.modified = ef.modified
    /\ f.status = ef.status

\* db.File.__eq__: content equality, 'updated' is not compared
FileEq(f, ef) ==
    /\ f.id = ef.id
    /\ f.name = ef.name
    /\ f.created = ef.created
    /\ f.modified = ef.modified
    /\ f.md5 = ef.md5
    /\ f.size = ef.size
    /\ f.status = ef.status

\* session.query(cls).filter_by(id=id): the rows of the table with that id,
\* the session's own pending changes included
QueryById(rows, id) == {r \in rows : r.id = id}

\* session.add(f)
SessionAdd(rows, f) == rows \cup {f}

\* session.delete(ef)
SessionDelete(rows, ef) == rows \ {ef}

\* session.merge(f): the row with f's primary key takes f's state
SessionMerge(rows, f) == {r \in rows : r.id # f.id} \cup {f}

\* The integrity constraint of the node store: an id is the key of at most
\* one row, and a file and a folder never share an id.
IntegrityConflict(folderRows, fileRows) ==
    \/ Cardinality(NodeIds(folderRows)) # Cardinality(folderRows)
    \/ Cardinality(NodeIds(fileRows)) # Cardinality(fileRows)
    \/ NodeIds(folderRows) \cap NodeIds(fileRows) # {}

-----------------------------------------------------------------------------
(* Raw node records, as the API client hands them to sync.py *)

\* a raw dict; a missing 'contentProperties' key is the empty set
RawNode(id, kind, status, name, modifiedDate, parents, contentProperties) ==
    [id |-> id, kind |-> kind, status |-> status, name |-> name,
     createdDate |-> "2015-01-01T00:00:00.000Z", modifiedDate |-> modifiedDate,
     parents |-> parents, contentProperties |-> contentProperties]

ParentLists == SeqUpTo(Ids, MaxParents)

SomeProps == {[md5 |-> "m1", size |-> 1]}

-----------------------------------------------------------------------------
(* insert_folders *)

\* The session and the counters at the start of a loop.  'n' counts the
\* readings of the clock (the records that got past the lookup), 'raised' is
\* the error that leaves the loop.
Session0(rows) ==
    [rows |-> rows, ins |-> 0, dup |-> 0, upd |-> 0, dtd |-> 0, n |-> 0, raised |-> None]

\* the readings of the clock by a loop over k records, the first not before
\* 'from': the clock does not go back
Readings(k, from) ==
    {r \in [1..k -> from..MaxClock] : \A i \in 1..k, j \in 1..k : i <= j => r[i] <= r[j]}

\* the pass with the duplicate left alone: no merge, 'updated' not refreshed
FolderUpsertSkipsDuplicate(s, folder, t) ==
    LET f == Folder(folder.id, folder.name, parse(folder.createdDate),
                    parse(folder.modifiedDate), folder.status, t)
        found == QueryById(s.rows, folder.id)
    IN  IF found = {}
        THEN [s EXCEPT !.rows = SessionAdd(@, f), !.ins = @ + 1]
        ELSE IF FolderEq(f, CHOOSE r \in found : TRUE)
        THEN [s EXCEPT !.dup = @ + 1]
        ELSE [s EXCEPT !.rows = SessionMerge(@, f), !.upd = @ + 1]

\* the pass that counts a merge of new content as an insertion
FolderUpsertCountsInserted(s, folder, t) ==
    LET f == Folder(folder.id, folder.name, parse(folder.createdDate),
                    parse(folder.modifiedDate), folder.status, t)
        found == QueryById(s.rows, folder.id)
    IN  IF found = {}
        THEN [s EXCEPT !.rows = SessionAdd(@, f), !.ins = @ + 1]
        ELSE IF FolderEq(f, CHOOSE r \in found : TRUE)
        THEN [s EXCEPT !.rows = SessionMerge(@, f), !.dup = @ + 1]
        ELSE [s EXCEPT !.rows = SessionMerge(@, f), !.ins = @ + 1]

\* one pass of the loop over the folders (the bookkeeping of parent_pairs is
\* in ParentPairs)
FolderUpsert(s, folder, t) ==
    LET f_name == folder.name   \* folder.get('name')
        f == Folder(folder.id, f_name, parse(folder.createdDate),
                    parse(folder.modifiedDate), folder.status, t)
        found == QueryById(s.rows, folder.id)
    IN  IF found = {}
        THEN [s EXCEPT !.rows = SessionAdd(@, f), !.ins = @ + 1]
        ELSE LET ef == CHOOSE r \in found : TRUE
             IN  IF FolderEq(f, ef)
                 THEN [s EXCEPT !.rows = SessionMerge(@, f), !.dup = @ + 1]
                 ELSE [s EXCEPT !.rows = SessionMerge(@, f), !.upd = @ + 1]

\* The loop over the folders; reads[i] is the i-th utcnow().  The lookup of
\* a record flushes the rows the session holds for the records before it, and
\* the IntegrityError of a row that cannot be stored leaves the loop there.
RECURSIVE FolderLoop(_, _, _, _, _)
FolderLoop(batch, i, s, reads, fileRows) ==
    IF i > Len(batch) THEN s
    ELSE IF IntegrityConflict(s.rows, fileRows)
    THEN [s EXCEPT !.raised = "IntegrityError"]
    ELSE FolderLoop(batch, i + 1,
                    [FolderUpsert(s, batch[i], reads[i]) EXCEPT !.n = i], reads, fileRows)

\* the commit that gives up the conflicting rows alone
FolderCommitOfTheRest(pending, committed, fileRows) ==
    IF IntegrityConflict(pending, fileRows)
    THEN [rows |-> {r \in pending : r.id \notin NodeIds(fileRows)}, rolled_back |-> TRUE]
    ELSE [rows |-> pending, rolled_back |-> FALSE]

\* the commit with the conflict ignored: the pending rows are stored
FolderCommitWithoutRollback(pending, committed, fileRows) ==
    [rows |-> pending, rolled_back |-> FALSE]

\* try: db.session.commit()  except IntegrityError: db.session.rollback()
FolderCommit(pending, committed, fileRows) ==
    IF IntegrityConflict(pending, fileRows)
    THEN [rows |-> committed, rolled_back |-> TRUE]
    ELSE [rows |-> pending, rolled_back |-> FALSE]

\* parent_pairs, as the loop over the batch builds it
ParentPairs(batch) == [i \in 1..Len(batch) |-> <<batch[i].id, batch[i].parents>>]

\* the rewrite that deletes the edges to the children of a record as well
RewriteWithChildren(table, batch) ==
    LET deleted == {e \in table : \A i \in 1..Len(batch) :
                       e.child # batch[i].id /\ e.parent # batch[i].id}
        inserted == UNION {{[parent |-> batch[i].parents[j], child |-> batch[i].id] :
                              j \in 1..Len(batch[i].parents)} : i \in 1..Len(batch)}
    IN  deleted \cup inserted

\* the rewrite cut off after its DELETE statements
RewriteDeletesOnly(table, batch) ==
    {e \in table : \A i \in 1..Len(batch) : e.child # batch[i].id}

\* the rewrite with the DELETE statements left out
RewriteWithoutDelete(table, batch) ==
    table \cup UNION {{[parent |-> batch[i].parents[j], child |-> batch[i].id] :
                        j \in 1..Len(batch[i].parents)} : i \in 1..Len(batch)}

\* the second transaction: DELETE FROM parentage WHERE child=? for every
\* record, then INSERT OR IGNORE INTO parentage for every parent of every pair
RewriteParentage(table, batch) ==
    LET parent_pairs == ParentPairs(batch)
        deleted == {e \in table : \A i \in 1..Len(batch) : e.child # batch[i].id}
        inserted == UNION {{[parent |-> parent_pairs[i][2][j],
                              child |-> parent_pairs[i][1]] :
                                j \in 1..Len(parent_pairs[i][2])} :
                            i \in 1..Len(parent_pairs)}
    IN  deleted \cup inserted

-----------------------------------------------------------------------------
(* insert_files *)

\* the properties of an empty file without the checksum of the empty string
PropsWithoutDigest(file) ==
    IF file.contentProperties = {}
    THEN [md5 |-> None, size |-> 0]
    ELSE CHOOSE p \in file.contentProperties : TRUE

\* props = file['contentProperties'], or the properties of an empty file
Props(file) ==
    IF file.contentProperties = {}
    THEN [md5 |-> EMPTY_MD5, size |-> 0]
    ELSE CHOOSE p \in file.contentProperties : TRUE

\* the pass with the update's session.add(f) left out
FileUpsertDeleteOnly(s, file, t) ==
    LET props == Props(file)
        f == File(file.id, file.name, parse(file.createdDate),
                  parse(file.modifiedDate), props.md5, props.size, file.status, t)
        found == QueryById(s.rows, file.id)
    IN  IF found = {}
        THEN [s EXCEPT !.rows = SessionAdd(@, f), !.ins = @ + 1]
        ELSE LET ef == CHOOSE r \in found : TRUE
             IN  IF FileEq(f, ef)
                 THEN [s EXCEPT !.rows = SessionAdd(SessionDelete(@, ef), f),
                                !.dup = @ + 1]
                 ELSE [s EXCEPT !.rows = SessionDelete(@, ef), !.upd = @ + 1]

FileUpsert(s, file, t) ==
    LET props == Props(file)
        f == File(file.id, file.name, parse(file.createdDate),
                  parse(file.modifiedDate), props.md5, props.size, file.status, t)
        found == QueryById(s.rows, file.id)
    IN  IF found = {}
        THEN [s EXCEPT !.rows = SessionAdd(@, f), !.ins = @ + 1]
        ELSE LET ef == CHOOSE r \in found : TRUE
             IN  IF FileEq(f, ef)
                 THEN [s EXCEPT !.rows = SessionAdd(SessionDelete(@, ef), f),
                                !.dup = @ + 1]
                 ELSE [s EXCEPT !.rows = SessionAdd(SessionDelete(@, ef), f),
                                !.upd = @ + 1]

\* The loop over the files; reads[i] is the i-th utcnow().  As in the loop
\* over the folders, the lookup of a record flushes the rows of the records
\* before it.
RECURSIVE FileLoop(_, _, _, _, _)
FileLoop(batch, i, s, reads, folderRows) ==
    IF i > Len(batch) THEN s
    ELSE IF IntegrityConflict(folderRows, s.rows)
    THEN [s EXCEPT !.raised = "IntegrityError"]
    ELSE FileLoop(batch, i + 1,
                  [FileUpsert(s, batch[i], reads[i]) EXCEPT !.n = i], reads, folderRows)

\* try: db.session.commit()  except ValueError: ...  An IntegrityError is no
\* ValueError: it leaves insert_files, and nothing of the session is stored.
FileCommit(pending, committed, folderRows) ==
    IF IntegrityConflict(folderRows, pending)
    THEN [rows |-> committed, raised |-> "IntegrityError"]
    ELSE [rows |-> pending, raised |-> None]

-----------------------------------------------------------------------------
(* insert_nodes, insert_node *)

RECURSIVE SelectLastFirst(_, _, _)
\* the lists built by putting every record in front of those before it
SelectLastFirst(nodes, i, kind) ==
    IF i > Len(nodes) THEN <<>>
    ELSE LET node == nodes[i]
             rest == SelectLastFirst(nodes, i + 1, kind)
         IN  IF node.status = "PENDING" THEN rest
             ELSE IF node.kind = kind THEN rest \o <<node>>
             ELSE rest

RECURSIVE SelectSeq2(_, _, _)
\* the records of nodes, in order, that insert_nodes appends to a list
SelectSeq2(nodes, i, kind) ==
    IF i > Len(nodes) THEN <<>>
    ELSE LET node == nodes[i]
             rest == SelectSeq2(nodes, i + 1, kind)
         IN  IF node.status = "PENDING" THEN rest
             ELSE IF node.kind = kind THEN <<node>> \o rest
             ELSE rest

RECURSIVE UnknownKinds(_, _)
\* the kinds insert_nodes logs a warning for, in order
UnknownKinds(nodes, i) ==
    IF i > Len(nodes) THEN <<>>
    ELSE LET node == nodes[i]
             rest == UnknownKinds(nodes, i + 1)
         IN  IF node.status = "PENDING" THEN rest
             ELSE IF node.kind = "FILE" THEN rest
             ELSE IF node.kind = "FOLDER" THEN rest
             ELSE IF node.kind # "ASSET" THEN <<node.kind>> \o rest
             ELSE rest

\* the loop without the check of the status
ClassifyPendingToo(nodes) ==
    [files |-> SelectSeq(nodes, LAMBDA n : n.kind = "FILE"),
     folders |-> SelectSeq(nodes, LAMBDA n : n.kind = "FOLDER"),
     warnings |-> UnknownKinds(nodes, 1)]

\* the loop of insert_nodes
Classify(nodes) ==
    [files |-> SelectSeq2(nodes, 1, "FILE"),
     folders |-> SelectSeq2(nodes, 1, "FOLDER"),
     warnings |-> UnknownKinds(nodes, 1)]

\* the branches of insert_node
Route(node) ==
    IF node.kind = "FILE"
    THEN [files |-> <<node>>, folders |-> <<>>, warnings |-> <<>>, to |-> "insert_files"]
    ELSE IF node.kind = "FOLDER"
    THEN [files |-> <<>>, folders |-> <<node>>, warnings |-> <<>>, to |-> "insert_folders"]
    ELSE IF node.kind # "ASSET"
    THEN [files |-> <<>>, folders |-> <<>>, warnings |-> <<node.kind>>, to |-> None]
    ELSE [files |-> <<>>, folders |-> <<>>, warnings |-> <<>>, to |-> None]

-----------------------------------------------------------------------------
(* remove_purged, set_checkpoint, get_checkpoint, max_age *)

RECURSIVE PurgeUntilMissing(_, _, _)
\* the loop that ends at the first id that has no node
PurgeUntilMissing(store, purged, i) ==
    IF i > Len(purged) THEN store
    ELSE LET fo == QueryById(store.folders, purged[i])
             fi == QueryById(store.files, purged[i])
         IN  IF fo # {}
             THEN PurgeUntilMissing([store EXCEPT !.folders =
                                SessionDelete(@, CHOOSE r \in fo : TRUE)], purged, i + 1)
             ELSE IF fi # {}
             THEN PurgeUntilMissing([store EXCEPT !.files =
                                SessionDelete(@, CHOOSE r \in fi : TRUE)], purged, i + 1)
             ELSE store

RECURSIVE PurgeLoop(_, _, _)
\* for p_id in purged: delete the node (a folder or a file) with that id, if
\* there is one
PurgeLoop(store, purged, i) ==
    IF i > Len(purged) THEN store
    ELSE LET fo == QueryById(store.folders, purged[i])
             fi == QueryById(store.files, purged[i])
         IN  IF fo # {}
             THEN PurgeLoop([store EXCEPT !.folders =
                                SessionDelete(@, CHOOSE r \in fo : TRUE)], purged, i + 1)
             ELSE IF fi # {}
             THEN PurgeLoop([store EXCEPT !.files =
                                SessionDelete(@, CHOOSE r \in fi : TRUE)], purged, i + 1)
             ELSE PurgeLoop(store, purged, i + 1)

\* the checkpoint added, not merged
AddCheckpoint(rows, cp) == rows \cup {[key |-> _CHECKPOINT_KEY, value |-> cp]}

\* db.session.merge(db.Metadate(_CHECKPOINT_KEY, cp))
MergeCheckpoint(rows, cp) ==
    {m \in rows : m.key # _CHECKPOINT_KEY} \cup {[key |-> _CHECKPOINT_KEY, value |-> cp]}

\* cp = query(db.Metadate).filter_by(key=_CHECKPOINT_KEY).first()
ReadCheckpoint(rows) ==
    LET cp == {m \in rows : m.key = _CHECKPOINT_KEY}
    IN  IF cp # {} THEN (CHOOSE m \in cp : TRUE).value ELSE None

\* the maximum over the files alone
MaxUpdatedOfFiles(folderRows, fileRows) ==
    LET updated == {r.updated : r \in fileRows}
    IN  {u \in updated : \A v \in updated : v <= u}

\* func.max(db.Node.updated) over the nodes of both kinds; no value (the
\* empty set) for no node
MaxUpdated(folderRows, fileRows) ==
    LET updated == {r.updated : r \in folderRows} \cup {r.updated : r \in fileRows}
    IN  {u \in updated : \A v \in updated : v <= u}

\* max_age, in ticks of the clock
Age(folderRows, fileRows, t) ==
    LET oldest == MaxUpdated(folderRows, fileRows)
    IN  IF oldest = {} THEN 0 ELSE t - (CHOOSE u \in oldest : TRUE)

-----------------------------------------------------------------------------
(* The inputs *)

\* folders and files with the name and the content the server reports; the
\* nodes of id "a" lie in "b"
ContentNodes ==
    {RawNode(id, kind, "AVAILABLE", name, "2015-01-01T00:00:00.000Z",
             IF id = "a" THEN <<"b">> ELSE <<>>,
             IF kind = "FILE" THEN SomeProps ELSE {}) :
        id \in Ids, kind \in {"FILE", "FOLDER"}, name \in Names}

\* an empty file: no contentProperties
EmptyFileNodes ==
    {RawNode("a", "FILE", "AVAILABLE", "n1", "2015-01-01T00:00:00.000Z", <<"b">>, {})}

\* records the classification is about
OtherNodes ==
    {RawNode("a", kind, "PENDING", "n1", "2015-06-01T12:30:00.500Z", <<"b">>, {}) :
        kind \in {"FILE", "FOLDER", "WIDGET"}}
    \cup {RawNode("a", kind, "AVAILABLE", "n1", "2015-06-01T12:30:00.500Z", <<"b">>, {}) :
        kind \in {"ASSET", "WIDGET"}}

RawNodes == ContentNodes \cup EmptyFileNodes \cup OtherNodes

\* folders and files of id "a" with every list of parents, and a folder and a
\* file "b" that lie in "a"
EdgeNodes ==
    {RawNode("a", kind, "AVAILABLE", "n1", "2015-01-01T00:00:00.000Z", parents,
             IF kind = "FILE" THEN SomeProps ELSE {}) :
        kind \in {"FILE", "FOLDER"}, parents \in ParentLists}
    \cup {RawNode("b", kind, "AVAILABLE", "n1", "2015-01-01T00:00:00.000Z", <<"a">>,
             IF kind = "FILE" THEN SomeProps ELSE {}) :
        kind \in {"FILE", "FOLDER"}}

\* those of at most one parent
SingleParentNodes == {n \in EdgeNodes : Len(n.parents) <= 1}

\* a mixed batch: a PENDING folder, an ASSET, a WIDGET, a file and a folder
MixedBatch ==
    <<RawNode("a", "FOLDER", "PENDING", "n1", "2015-06-01T12:30:00.500Z", <<"b">>, {}),
      RawNode("a", "ASSET", "AVAILABLE", "n1", "2015-06-01T12:30:00.500Z", <<"b">>, {}),
      RawNode("a", "WIDGET", "AVAILABLE", "n1", "2015-06-01T12:30:00.500Z", <<"b">>, {}),
      RawNode("a", "FILE", "AVAILABLE", "n1", "2015-01-01T00:00:00.000Z", <<"b">>, SomeProps),
      RawNode("b", "FOLDER", "AVAILABLE", "n1", "2015-01-01T00:00:00.000Z", <<>>, {})>>

OfKind(nodes, kind) == {n \in nodes : n.kind = kind}

PurgeLists == SeqUpTo(Ids, MaxPurged)

-----------------------------------------------------------------------------
(* The state machine *)

Tally0 == [ins |-> 0, dup |-> 0, upd |-> 0, dtd |-> 0]

Tally(s) == [ins |-> s.ins, dup |-> s.dup, upd |-> s.upd, dtd |-> s.dtd]

\* 't' is the clock when the call began (for max_age: its reading of the
\* clock); 'folder_reads' and 'file_reads' are the readings of the clock by
\* the loops of insert_folders and insert_files, one for each record that
\* got past its lookup.
Call0 ==
    [op |-> None, nodes |-> <<>>, folders |-> <<>>, files |-> <<>>,
     purged |-> <<>>, cp |-> None, t |-> 0, folder_reads |-> <<>>, file_reads |-> <<>>]

Database ==
    [folders |-> folders, files |-> files, parentage |-> parentage,
     metadata |-> metadata]

\* What a call gives back: the error that leaves it, its log lines and its
\* return value.  'again' says that the call repeats the call before it, and
\* 'first' is what that call logged and whether it stored its rows.
Out0 ==
    [raised |-> None, warnings |-> <<>>, folder_log |-> Tally0, file_log |-> Tally0,
     rolled_back |-> FALSE, purged_log |-> 0, cp |-> None, age |-> 0,
     again |-> FALSE, first |-> [log |-> Tally0, stored |-> FALSE]]

Init ==
    /\ folders = {}
    /\ files = {}
    /\ parentage = {}
    /\ metadata = {}
    /\ now = 0
    /\ pc = "idle"
    /\ call = Call0
    /\ out = Out0
    /\ pre = [folders |-> {}, files |-> {}, parentage |-> {}, metadata |-> {}]

\* the empty database at the time the clock is at its bound: from then on
\* every reading of the clock is the same
InitAtMaxClock ==
    /\ folders = {}
    /\ files = {}
    /\ parentage = {}
    /\ metadata = {}
    /\ now = MaxClock
    /\ pc = "idle"
    /\ call = Call0
    /\ out = Out0
    /\ pre = [folders |-> {}, files |-> {}, parentage |-> {}, metadata |-> {}]

\* insert_folders with the rows and the edges committed as one transaction
FolderNodesAndEdges(c, o) ==
    \E reads \in Readings(Len(c.folders), now) :
        LET s == FolderLoop(c.folders, 1, Session0(folders), reads, files)
            r == FolderCommit(s.rows, folders, files)
        IN  /\ now' = IF s.n = 0 THEN now ELSE reads[s.n]
            /\ call' = [c EXCEPT !.folder_reads = SubSeq(reads, 1, s.n)]
            /\ IF s.raised # None
               THEN /\ folders' = folders
                    /\ parentage' = parentage
                    /\ out' = [o EXCEPT !.raised = s.raised]
                    /\ pc' = "done"
               ELSE /\ folders' = r.rows
                    /\ parentage' = RewriteParentage(parentage, c.folders)
                    /\ out' = [o EXCEPT !.folder_log = Tally(s),
                                        !.rolled_back = r.rolled_back]
                    /\ pc' = "folders_edges"
            /\ UNCHANGED <<files, metadata>>

\* The first transaction of insert_folders: the loop and the commit.  An
\* error of the loop leaves the call: nothing is committed, logged or
\* rewritten.  The time of the last reading is the time after the step.
FolderNodes(c, o) ==
    \E reads \in Readings(Len(c.folders), now) :
        LET s == FolderLoop(c.folders, 1, Session0(folders), reads, files)
            r == FolderCommit(s.rows, folders, files)
        IN  /\ now' = IF s.n = 0 THEN now ELSE reads[s.n]
            /\ call' = [c EXCEPT !.folder_reads = SubSeq(reads, 1, s.n)]
            /\ IF s.raised # None
               THEN /\ folders' = folders
                    /\ out' = [o EXCEPT !.raised = s.raised]
                    /\ pc' = "done"
               ELSE /\ folders' = r.rows
                    /\ out' = [o EXCEPT !.folder_log = Tally(s),
                                        !.rolled_back = r.rolled_back]
                    /\ pc' = "folders_edges"
            /\ UNCHANGED <<files, parentage, metadata>>

\* The first transaction of insert_files: the loop and the commit.  An
\* error of the loop or of the commit leaves the call.
FileNodes(c, o) ==
    \E reads \in Readings(Len(c.files), now) :
        LET s == FileLoop(c.files, 1, Session0(files), reads, folders)
            r == FileCommit(s.rows, files, folders)
        IN  /\ now' = IF s.n = 0 THEN now ELSE reads[s.n]
            /\ call' = [c EXCEPT !.file_reads = SubSeq(reads, 1, s.n)]
            /\ IF s.raised # None
               THEN /\ files' = files
                    /\ out' = [o EXCEPT !.raised = s.raised]
                    /\ pc' = "done"
               ELSE IF r.raised # None
               THEN /\ files' = r.rows
                    /\ out' = [o EXCEPT !.raised = r.raised]
                    /\ pc' = "done"
               ELSE /\ files' = r.rows
                    /\ out' = [o EXCEPT !.file_log = Tally(s)]
                    /\ pc' = "files_edges"
            /\ UNCHANGED <<folders, parentage, metadata>>

InsertFoldersOf(nodes) ==
    /\ pc = "idle"
    /\ pre' = Database
    /\ \E batch \in SeqUpTo(OfKind(nodes, "FOLDER"), MaxBatch) :
          FolderNodes([Call0 EXCEPT !.op = "insert_folders", !.folders = batch,
                                    !.t = now], Out0)

InsertFilesOf(nodes) ==
    /\ pc = "idle"
    /\ pre' = Database
    /\ \E batch \in SeqUpTo(OfKind(nodes, "FILE"), MaxBatch) :
          FileNodes([Call0 EXCEPT !.op = "insert_files", !.files = batch,
                                  !.t = now], Out0)

InsertNodesIn(batches) ==
    /\ pc = "idle"
    /\ pre' = Database
    /\ \E batch \in batches :
          LET k == Classify(batch)
          IN  FolderNodes([Call0 EXCEPT !.op = "insert_nodes", !.nodes = batch,
                                        !.folders = k.folders, !.files = k.files,
                                        !.t = now],
                          [Out0 EXCEPT !.warnings = k.warnings])

InsertNodesOf(nodes) == InsertNodesIn(SeqUpTo(nodes, MaxBatch))

InsertNodeOf(nodes) ==
    /\ pc = "idle"
    /\ pre' = Database
    /\ \E node \in nodes :
          LET r == Route(node)
              c == [Call0 EXCEPT !.op = "insert_node", !.nodes = <<node>>,
                                 !.folders = r.folders, !.files = r.files, !.t = now]
              o == [Out0 EXCEPT !.warnings = r.warnings]
          IN  IF r.to = "insert_files" THEN FileNodes(c, o)
              ELSE IF r.to = "insert_folders" THEN FolderNodes(c, o)
              ELSE /\ call' = c
                   /\ out' = o
                   /\ pc' = "done"
                   /\ UNCHANGED <<folders, files, parentage, metadata, now>>

\* the second transaction of insert_folders
FoldersEdgeCommit ==
    /\ pc = "folders_edges"
    /\ parentage' = RewriteParentage(parentage, call.folders)
    /\ pc' = IF call.op = "insert_nodes" THEN "files_nodes" ELSE "done"
    /\ UNCHANGED <<folders, files, metadata, now, call, out, pre>>

\* insert_nodes goes on to insert_files(files)
FilesNodeCommit ==
    /\ pc = "files_nodes"
    /\ FileNodes(call, out)
    /\ UNCHANGED pre

\* the second transaction of insert_files
FilesEdgeCommit ==
    /\ pc = "files_edges"
    /\ parentage' = RewriteParentage(parentage, call.files)
    /\ pc' = "done"
    /\ UNCHANGED <<folders, files, metadata, now, call, out, pre>>

\* the caller hands insert_folders or insert_files the list of its last call
\* once more
Again ==
    /\ pc = "done"
    /\ call.op \in {"insert_folders", "insert_files"}
    /\ ~out.again
    /\ pre' = Database
    /\ IF call.op = "insert_folders"
       THEN FolderNodes([call EXCEPT !.t = now], [Out0 EXCEPT !.again = TRUE, !.first =
                [log |-> out.folder_log,
                 stored |-> out.raised = None /\ ~out.rolled_back]])
       ELSE FileNodes([call EXCEPT !.t = now], [Out0 EXCEPT !.again = TRUE, !.first =
                [log |-> out.file_log, stored |-> out.raised = None]])

RemovePurged ==
    /\ pc = "idle"
    /\ pre' = Database
    /\ \E purged \in PurgeLists :
          LET store == PurgeLoop([folders |-> folders, files |-> files], purged, 1)
          IN  /\ folders' = store.folders
              /\ files' = store.files
              /\ call' = [Call0 EXCEPT !.op = "remove_purged", !.purged = purged, !.t = now]
              /\ out' = [Out0 EXCEPT !.purged_log = Len(purged)]
    /\ pc' = "done"
    /\ UNCHANGED <<parentage, metadata, now>>

SetCheckpoint ==
    /\ pc = "idle"
    /\ pre' = Database
    /\ \E cp \in Tokens :
          /\ metadata' = MergeCheckpoint(metadata, cp)
          /\ call' = [Call0 EXCEPT !.op = "set_checkpoint", !.cp = cp, !.t = now]
    /\ out' = Out0
    /\ pc' = "done"
    /\ UNCHANGED <<folders, files, parentage, now>>

GetCheckpoint ==
    /\ pc = "idle"
    /\ pre' = Database
    /\ call' = [Call0 EXCEPT !.op = "get_checkpoint", !.t = now]
    /\ out' = [Out0 EXCEPT !.cp = ReadCheckpoint(metadata)]
    /\ pc' = "done"
    /\ UNCHANGED <<folders, files, parentage, metadata, now>>

\* max_age reads the clock after its query, and only when there is a node
MaxAge ==
    /\ pc = "idle"
    /\ pre' = Database
    /\ \E t \in now..MaxClock :
          /\ MaxUpdated(folders, files) = {} => t = now
          /\ now' = t
          /\ call' = [Call0 EXCEPT !.op = "max_age", !.t = t]
          /\ out' = [Out0 EXCEPT !.age = Age(folders, files, t)]
    /\ pc' = "done"
    /\ UNCHANGED <<folders, files, parentage, metadata>>

\* The call is over: the caller has its result.  After an error the caller
\* rolls the session back before its next call, so that call starts from the
\* committed rows.
Return ==
    /\ pc = "done"
    /\ pc' = "idle"
    /\ call' = Call0
    /\ out' = Out0
    /\ pre' = Database
    /\ UNCHANGED <<folders, files, parentage, metadata, now>>

\* time passes, between two calls and between the steps of a call
Tick ==
    /\ now < MaxClock
    /\ now' = now + 1
    /\ UNCHANGED <<folders, files, parentage, metadata, pc, call, out, pre>>

InsertNodes == InsertNodesOf(RawNodes)
InsertNodesMixed == InsertNodesIn({MixedBatch})
InsertNode == InsertNodeOf(RawNodes)
InsertFolders == InsertFoldersOf(RawNodes)
InsertFiles == InsertFilesOf(RawNodes)

Next ==
    \/ InsertNodes
    \/ InsertNodesMixed
    \/ InsertNode
    \/ InsertFolders
    \/ InsertFiles
    \/ FoldersEdgeCommit
    \/ FilesNodeCommit
    \/ FilesEdgeCommit
    \/ RemovePurged
    \/ SetCheckpoint
    \/ GetCheckpoint
    \/ Return

\* the calls on the records of every kind and status, at one time
Spec == InitAtMaxClock /\ [][Next]_vars

\* the same calls on records that differ in their parents
InsertNodesEdges == InsertNodesOf(SingleParentNodes)
InsertNodeEdges == InsertNodeOf(EdgeNodes)
InsertFoldersEdges == InsertFoldersOf(EdgeNodes)
InsertFilesEdges == InsertFilesOf(EdgeNodes)

NextEdges ==
    \/ InsertNodesEdges
    \/ InsertNodeEdges
    \/ InsertFoldersEdges
    \/ InsertFilesEdges
    \/ FoldersEdgeCommit
    \/ FilesNodeCommit
    \/ FilesEdgeCommit
    \/ RemovePurged
    \/ Return

SpecEdges == InitAtMaxClock /\ [][NextEdges]_vars

\* the folders and files of one name, and the empty file
ClockNodes == {n \in ContentNodes : n.name = "n1"} \cup EmptyFileNodes

\* the calls that read the clock, with time passing between and within them
InsertNodesClock == InsertNodesOf(ClockNodes)
InsertNodeClock == InsertNodeOf(ClockNodes)
InsertFoldersClock == InsertFoldersOf(ClockNodes)
InsertFilesClock == InsertFilesOf(ClockNodes)

NextClock ==
    \/ InsertNodesClock
    \/ InsertNodeClock
    \/ InsertFoldersClock
    \/ InsertFilesClock
    \/ FoldersEdgeCommit
    \/ FilesNodeCommit
    \/ FilesEdgeCommit
    \/ Again
    \/ RemovePurged
    \/ MaxAge
    \/ Return
    \/ Tick

SpecClock == Init /\ [][NextClock]_vars

-----------------------------------------------------------------------------
(* Properties *)

Range(seq) == {seq[i] : i \in 1..Len(seq)}

\* the stored edge set of a child
EdgesOf(table, child) == {e \in table : e.child = child}

\* the edges a list of parents stands for
EdgesFor(child, parents) == {[parent |-> p, child |-> child] : p \in Range(parents)}

\* the records the running call hands to insert_folders and insert_files
Upserted == call.folders \o call.files

\* the call is over and no error left it
Returned == pc = "done" /\ out.raised = None

\* the last record of a list that has the id
LastFor(batch, id) ==
    batch[CHOOSE i \in 1..Len(batch) :
            /\ batch[i].id = id
            /\ \A j \in (i + 1)..Len(batch) : batch[j].id # id]

\* the place of the last record of a list that has the id
LastIndex(batch, id) ==
    CHOOSE i \in 1..Len(batch) :
        /\ batch[i].id = id
        /\ \A j \in (i + 1)..Len(batch) : batch[j].id # id

\* The reading of the clock for the last record of the id in the list of the
\* folders, or of the files, of the running call; -1 when the loop did not
\* get to the record.
FolderStamp(id) ==
    LET i == LastIndex(call.folders, id)
    IN  IF i \in DOMAIN call.folder_reads THEN call.folder_reads[i] ELSE -1
FileStamp(id) ==
    LET i == LastIndex(call.files, id)
    IN  IF i \in DOMAIN call.file_reads THEN call.file_reads[i] ELSE -1
StampOf(n) == IF n.kind = "FOLDER" THEN FolderStamp(n.id) ELSE FileStamp(n.id)

\* the loop over the folders of the running call came to its end
FoldersLooped == Len(call.folder_reads) = Len(call.folders)

\* C1: edge-set exactness.  When insert_folders or insert_files has upserted a
\* single record, the stored edges of the record's id are exactly one edge to
\* each parent its payload lists, whatever edges the id had before and
\* whether or not the list repeats a parent.
C1_EdgeSetExact ==
    (/\ Returned
     /\ call.op \in {"insert_folders", "insert_files"}
     /\ Len(Upserted) = 1)
    => EdgesOf(parentage, Upserted[1].id)
          = EdgesFor(Upserted[1].id, Upserted[1].parents)

\* C1 happens: a record whose list repeats a parent replaces other edges
C1_Witness ==
    /\ Returned
    /\ call.op \in {"insert_folders", "insert_files"}
    /\ Len(Upserted) = 1
    /\ Len(Upserted[1].parents) = 2
    /\ Upserted[1].parents[1] = Upserted[1].parents[2]
    /\ EdgesOf(pre.parentage, Upserted[1].id) # {}
    /\ EdgesOf(pre.parentage, Upserted[1].id) \cap EdgesOf(parentage, Upserted[1].id) = {}

\* C2: after a sync round that returns, the stored edges of every id the
\* round upserted are exactly the parents of the last record of that id.
C2_EdgesOfLastPayload ==
    (/\ Returned
     /\ call.op \in {"insert_nodes", "insert_folders", "insert_files"})
    => \A id \in {n.id : n \in Range(Upserted)} :
          EdgesOf(parentage, id)
             = EdgesFor(id, LastFor(IF call.op = "insert_nodes" THEN call.nodes
                                    ELSE Upserted, id).parents)

\* C3: soft-fail policy.  No error leaves a call: not for an unknown kind, a
\* PENDING or ASSET record, a file without contentProperties, nor for an
\* integrity conflict during a node-row commit.
C3_NoErrorLeavesACall == out.raised = None

\* what insert_nodes makes of a database, with the given readings of the
\* clock by its two loops
AsInsertNodes(db, batch, folder_reads, file_reads) ==
    LET k == Classify(batch)
        fs == FolderLoop(k.folders, 1, Session0(db.folders), folder_reads, db.files)
        fc == FolderCommit(fs.rows, db.folders, db.files)
        e1 == RewriteParentage(db.parentage, k.folders)
        ls == FileLoop(k.files, 1, Session0(db.files), file_reads, fc.rows)
        lc == FileCommit(ls.rows, db.files, fc.rows)
    IN  IF fs.raised # None
        THEN [folders |-> db.folders, files |-> db.files, parentage |-> db.parentage,
              warnings |-> k.warnings, raised |-> fs.raised]
        ELSE IF ls.raised # None
        THEN [folders |-> fc.rows, files |-> db.files, parentage |-> e1,
              warnings |-> k.warnings, raised |-> ls.raised]
        ELSE [folders |-> fc.rows, files |-> lc.rows,
              parentage |-> IF lc.raised = None THEN RewriteParentage(e1, k.files) ELSE e1,
              warnings |-> k.warnings, raised |-> lc.raised]

\* C5: insert_node(r) leaves the node rows and the edges as insert_nodes([r])
\* leaves them and logs the same warnings; a PENDING record creates nothing.
C5_InsertNodeAsInsertNodes ==
    (pc = "done" /\ call.op = "insert_node")
    => LET r == AsInsertNodes(pre, call.nodes, call.folder_reads, call.file_reads)
       IN  /\ folders = r.folders
           /\ files = r.files
           /\ parentage = r.parentage
           /\ out.warnings = r.warnings
           /\ out.raised = r.raised

\* the records insert_nodes is to store, and those it is to warn about
Eligible(n) == n.status # "PENDING" /\ n.kind \in {"FILE", "FOLDER"}
Warned(n) == n.status # "PENDING" /\ n.kind \notin {"FILE", "FOLDER", "ASSET"}

\* the row of a record is stored, stamped t, and is the only row of its id
StoredAs(n, t) ==
    IF n.kind = "FOLDER"
    THEN /\ QueryById(folders, n.id)
               = {Folder(n.id, n.name, parse(n.createdDate), parse(n.modifiedDate),
                         n.status, t)}
         /\ QueryById(files, n.id) = {}
    ELSE /\ QueryById(files, n.id)
               = {File(n.id, n.name, parse(n.createdDate), parse(n.modifiedDate),
                       Props(n).md5, Props(n).size, n.status, t)}
         /\ QueryById(folders, n.id) = {}

\* the call left the rows of an id as they were
RowsUntouched(id) ==
    /\ QueryById(folders, id) = QueryById(pre.folders, id)
    /\ QueryById(files, id) = QueryById(pre.files, id)

\* the rows of exactly the eligible records of the batch are written
RowsOfEligible(batch) ==
    \A id \in Ids :
        IF \E n \in Range(batch) : Eligible(n) /\ n.id = id
        THEN LET n == LastFor(SelectSeq(batch, Eligible), id)
             IN  StoredAs(n, StampOf(n))
        ELSE RowsUntouched(id)

\* C6 as written: every batch creates or changes the rows of exactly
\* its non-PENDING FILE and FOLDER records, and logs a warning for exactly
\* the records of an unrecognized kind that it does not drop as PENDING.
C6_ClassificationAsWritten ==
    (pc = "done" /\ call.op = "insert_nodes")
    => /\ RowsOfEligible(call.nodes)
       /\ out.warnings = [i \in 1..Len(SelectSeq(call.nodes, Warned)) |->
                            SelectSeq(call.nodes, Warned)[i].kind]

\* C6: insert_nodes writes no row of an id that no non-PENDING FILE or FOLDER
\* record of the batch has; when neither node-row commit meets an integrity
\* conflict it writes the row of every such record; it logs a warning for
\* exactly the non-PENDING records of a kind other than FILE, FOLDER and
\* ASSET; the mixed batch on an empty store yields two rows and one warning.
C6_Classification ==
    (pc = "done" /\ call.op = "insert_nodes")
    => /\ \A id \in Ids :
            (\A n \in Range(call.nodes) : Eligible(n) => n.id # id) => RowsUntouched(id)
       /\ (out.raised = None /\ ~out.rolled_back) => RowsOfEligible(call.nodes)
       /\ out.warnings = [i \in 1..Len(SelectSeq(call.nodes, Warned)) |->
                            SelectSeq(call.nodes, Warned)[i].kind]
       /\ (call.nodes = MixedBatch /\ pre.folders = {} /\ pre.files = {})
            => /\ Cardinality(folders) + Cardinality(files) = 2
               /\ out.warnings = <<"WIDGET">>

\* C6 happens: the mixed batch has been applied to an empty store
C6_Witness ==
    /\ pc = "done"
    /\ call.op = "insert_nodes"
    /\ call.nodes = MixedBatch
    /\ pre.folders = {}
    /\ pre.files = {}

\* the call of insert_folders or insert_files with one record whose id has no
\* node row
FirstOf(op) ==
    /\ pc = "done"
    /\ call.op = op
    /\ Len(Upserted) = 1
    /\ Upserted[1].id \notin NodeIds(pre.folders) \cup NodeIds(pre.files)

\* the repeated call of insert_folders or insert_files with one record of a
\* kind, after a first call that inserted the record's row
SecondOf(op) ==
    /\ pc = "done"
    /\ call.op = op
    /\ out.again
    /\ Len(Upserted) = 1
    /\ out.first.log = [Tally0 EXCEPT !.ins = 1]
    /\ out.first.stored

\* C4: idempotence of the upsert.  A record of an id that has no row is
\* tallied as inserted and stored.  The same record applied again is tallied
\* as duplicate and as nothing else, the id has one row, its content is what
\* it was after the first application, and its 'updated' is the time of the
\* second application.
C4_Idempotent ==
    /\ FirstOf("insert_folders")
         => out.folder_log = [Tally0 EXCEPT !.ins = 1] /\ StoredAs(call.folders[1], StampOf(call.folders[1]))
    /\ FirstOf("insert_files")
         => out.file_log = [Tally0 EXCEPT !.ins = 1] /\ StoredAs(call.files[1], StampOf(call.files[1]))
    /\ SecondOf("insert_folders")
         => /\ out.folder_log = [Tally0 EXCEPT !.dup = 1]
            /\ StoredAs(call.folders[1], StampOf(call.folders[1]))
            /\ \E f \in QueryById(pre.folders, call.folders[1].id) :
                  \A r \in QueryById(folders, f.id) : FolderEq(r, f)
    /\ SecondOf("insert_files")
         => /\ out.file_log = [Tally0 EXCEPT !.dup = 1]
            /\ StoredAs(call.files[1], StampOf(call.files[1]))
            /\ \E f \in QueryById(pre.files, call.files[1].id) :
                  \A r \in QueryById(files, f.id) : FileEq(r, f)

\* C4 happens: a folder applied twice, the second time later than the first
C4_Witness ==
    /\ SecondOf("insert_folders")
    /\ \E f \in pre.folders : f.id = call.folders[1].id /\ f.updated < StampOf(call.folders[1])

\* C7: the checkpoint.  There is at most one record under the checkpoint
\* key; get_checkpoint gives None while there is none and the stored token
\* otherwise; after set_checkpoint(X) the one record holds X, and the call
\* changes nothing when X was the token before; no other call changes the
\* record.
C7_Checkpoint ==
    /\ Cardinality({m \in metadata : m.key = _CHECKPOINT_KEY}) <= 1
    /\ (pc = "done" /\ call.op = "set_checkpoint")
         => /\ metadata = {[key |-> _CHECKPOINT_KEY, value |-> call.cp]}
            /\ ([key |-> _CHECKPOINT_KEY, value |-> call.cp] \in pre.metadata
                  => Database = pre)
    /\ (pc = "done" /\ call.op = "get_checkpoint")
         => /\ pre.metadata = {} => out.cp = None
            /\ \A m \in pre.metadata : out.cp = m.value
            /\ Database = pre
    /\ call.op # "set_checkpoint" => metadata = pre.metadata

\* C7 happens: Y is set over X
C7_Witness ==
    /\ pc = "done"
    /\ call.op = "set_checkpoint"
    /\ call.cp = "Y"
    /\ pre.metadata = {[key |-> _CHECKPOINT_KEY, value |-> "X"]}

\* C8: no id is stored twice: every id has at most one node row, a folder
\* row or a file row.
C8_OneRowPerId ==
    \A id \in Ids :
        Cardinality(QueryById(folders, id)) + Cardinality(QueryById(files, id)) <= 1

\* C8 happens: a call has reported an id under the kind it is not stored as
C8_Witness ==
    /\ pc = "done"
    /\ \/ out.rolled_back /\ \E n \in Range(call.folders) : QueryById(files, n.id) # {}
       \/ out.raised # None /\ \E n \in Range(call.files) : QueryById(folders, n.id) # {}

\* C9: remove_purged deletes the rows of the ids of its list and nothing
\* else, and no error leaves it.
C9_PurgeFrame ==
    (pc = "done" /\ call.op = "remove_purged")
    => /\ folders = {r \in pre.folders : r.id \notin Range(call.purged)}
       /\ files = {r \in pre.files : r.id \notin Range(call.purged)}
       /\ parentage = pre.parentage
       /\ metadata = pre.metadata
       /\ out.raised = None

\* C9 happens: a list with an id that has no row, and then one that has
C9_Witness ==
    /\ pc = "done"
    /\ call.op = "remove_purged"
    /\ Len(call.purged) = 2
    /\ QueryById(pre.folders, call.purged[1]) = {}
    /\ QueryById(pre.files, call.purged[1]) = {}
    /\ QueryById(pre.files, call.purged[2]) # {}
    /\ pre.parentage # {}
    /\ pre.metadata # {}

\* the ids that have a node row
StoredIds(folderRows, fileRows) == NodeIds(folderRows) \cup NodeIds(fileRows)

\* C10: a stored node stays stored until it is purged: a step takes the row
\* of an id away only if it is remove_purged with the id in its list.
C10_RemovedOnlyByPurge ==
    [][\A id \in StoredIds(folders, files) \ StoredIds(folders', files') :
          call'.op = "remove_purged" /\ id \in Range(call'.purged)]_vars

\* C10 happens: a file was updated, by delete and insert, and is stored
C10_Witness ==
    /\ pc = "done"
    /\ call.op \in {"insert_nodes", "insert_node", "insert_files"}
    /\ out.file_log.upd > 0
    /\ \A n \in Range(call.files) : n.id \in NodeIds(files)

\* C11: referential integrity of the edges.  Once a call is over, the child
\* and the parent of every stored edge have a node row.
C11_EdgesReferenceNodes ==
    pc \in {"idle", "done"}
    => \A e \in parentage :
          /\ e.child \in StoredIds(folders, files)
          /\ e.parent \in StoredIds(folders, files)

\* the non-PENDING records of a kind, in the order of the batch
GroupOf(batch, kind) == SelectSeq(batch, LAMBDA n : n.status # "PENDING" /\ n.kind = kind)

\* C12: in insert_nodes the folders come before the files.  The groups handed
\* to insert_folders and insert_files keep the order of the batch; until both
\* transactions of the folders are committed no file row is added, deleted
\* or tallied; and when insert_files begins, the folder rows (unless rolled
\* back) and the edges of the folders are stored.
C12_FoldersBeforeFiles ==
    call.op = "insert_nodes"
    => /\ call.folders = GroupOf(call.nodes, "FOLDER")
       /\ call.files = GroupOf(call.nodes, "FILE")
       /\ pc \in {"folders_edges", "files_nodes"}
            => files = pre.files /\ out.file_log = Tally0
       /\ pc = "folders_edges" => parentage = pre.parentage
       /\ pc = "files_nodes"
            => \A n \in Range(call.folders) :
                  /\ EdgesFor(n.id, n.parents) \subseteq parentage
                  /\ ~out.rolled_back => StoredAs(LastFor(call.folders, n.id), FolderStamp(n.id))

\* C12 happens: a batch with a file in front of a folder; the folder's row
\* and edge are committed and insert_files is to begin
C12_Witness ==
    /\ call.op = "insert_nodes"
    /\ pc = "files_nodes"
    /\ Len(call.nodes) = 2
    /\ call.nodes[1].kind = "FILE"
    /\ call.nodes[2].kind = "FOLDER"
    /\ call.files # <<>>
    /\ folders # pre.folders
    /\ parentage # pre.parentage

\* the file row an empty file is to be stored as
EmptyFileRow(n, t) ==
    File(n.id, n.name, parse(n.createdDate), parse(n.modifiedDate), EMPTY_MD5, 0,
         n.status, t)

\* a call of insert_files, or of insert_node for a file, none of whose
\* records has the id of a stored folder
FilesCall ==
    /\ pc = "done"
    /\ call.op \in {"insert_files", "insert_node"}
    /\ call.files # <<>>
    /\ \A n \in Range(call.files) : n.id \notin NodeIds(pre.folders)

\* C13: a FILE record without contentProperties is no error, and its row has
\* the checksum d41d8cd98f00b204e9800998ecf8427e and the size 0; such a
\* record for an id whose row has this checksum and size and the record's
\* other content is tallied as duplicate.
C13_EmptyFile ==
    FilesCall
    => /\ out.raised = None
       /\ \A n \in Range(call.files) :
             (n = LastFor(call.files, n.id) /\ n.contentProperties = {})
             => QueryById(files, n.id) = {EmptyFileRow(n, FileStamp(n.id))}
       /\ (/\ Len(call.files) = 1
           /\ call.files[1].contentProperties = {}
           /\ \E ef \in pre.files : FileEq(EmptyFileRow(call.files[1], FileStamp(call.files[1].id)), ef))
          => out.file_log = [Tally0 EXCEPT !.dup = 1]

\* C13 happens: an empty file is stored, and later the same record comes again
C13_Witness ==
    /\ FilesCall
    /\ Len(call.files) = 1
    /\ call.files[1].contentProperties = {}
    /\ \E ef \in pre.files :
          /\ ef.id = call.files[1].id
          /\ ef.md5 = EMPTY_MD5
          /\ ef.size = 0
          /\ ef.updated < FileStamp(call.files[1].id)

\* the values of 'updated' of the stored nodes
UpdatedValues == {r.updated : r \in folders} \cup {r.updated : r \in files}

\* C14: max_age gives zero when no node is stored, and otherwise the time
\* from the latest 'updated' of all the nodes, folders and files, to now; it
\* is never negative; it changes nothing.
C14_MaxAge ==
    (pc = "done" /\ call.op = "max_age")
    => /\ UpdatedValues = {} => out.age = 0
       /\ UpdatedValues # {}
            => \E u \in UpdatedValues :
                  /\ \A v \in UpdatedValues : v <= u
                  /\ out.age = call.t - u
       /\ out.age >= 0
       /\ Database = pre

\* C14 happens: a folder and a file stored at different times, and max_age
\* called later than both
C14_Witness ==
    /\ pc = "done"
    /\ call.op = "max_age"
    /\ \E fo \in folders : \E fi \in files : fi.updated < fo.updated
    /\ out.age > 0

\* insert_folders has returned (to its caller or to insert_nodes) from a
\* batch whose commit meets an integrity conflict: its last record has the id
\* of a stored file, and no record before it has
CommitConflict ==
    /\ \/ pc = "done" /\ call.op \in {"insert_folders", "insert_node"}
       \/ pc = "files_nodes"
    /\ call.folders # <<>>
    /\ call.folders[Len(call.folders)].id \in NodeIds(pre.files)
    /\ \A i \in 1..(Len(call.folders) - 1) : call.folders[i].id \notin NodeIds(pre.files)

\* C15: an integrity conflict in the node-row commit of insert_folders rolls
\* back the rows of the whole batch: no folder row is inserted or changed,
\* the rows of the records without a conflict included.  The edge rewrite
\* runs all the same: the edges of every id of the batch are the parents its
\* payload lists, and no error leaves the call.
C15_RollbackThenRewrite ==
    CommitConflict
    => /\ out.rolled_back
       /\ out.raised = None
       /\ folders = pre.folders
       /\ files = pre.files
       /\ \A id \in NodeIds(Range(call.folders)) :
             EdgesOf(parentage, id)
                = UNION {EdgesFor(id, n.parents) : n \in QueryById(Range(call.folders), id)}

\* C15 happens: a batch of a folder that is new and a folder whose id is a
\* file's; the new folder is not stored, and both have the edges of the batch
C15_Witness ==
    /\ CommitConflict
    /\ call.op = "insert_folders"
    /\ Len(call.folders) = 2
    /\ call.folders[1].id \notin StoredIds(pre.folders, pre.files)
    /\ EdgesOf(pre.parentage, call.folders[2].id) # EdgesOf(parentage, call.folders[2].id)
    /\ EdgesOf(parentage, call.folders[1].id) # {}

\* the content of a record and of a row: every field but 'updated'
ContentOf(n) ==
    IF n.kind = "FOLDER"
    THEN <<n.name, parse(n.createdDate), parse(n.modifiedDate), n.status>>
    ELSE <<n.name, parse(n.createdDate), parse(n.modifiedDate), n.status,
           Props(n).md5, Props(n).size>>
ContentOfFolder(r) == <<r.name, r.created, r.modified, r.status>>
ContentOfFile(r) == <<r.name, r.created, r.modified, r.status, r.md5, r.size>>

\* The tally the i-th record of a batch is to count for.  The row of its id
\* when it is processed is that of the record of the id before it in the
\* batch, if there is one, and else the row the call found in the table of
\* the batch's kind.
TallyOf(batch, i, rows) ==
    LET n == batch[i]
        before == {j \in 1..(i - 1) : batch[j].id = n.id}
        found == QueryById(rows, n.id)
    IN  IF before # {}
        THEN LET j == CHOOSE k \in before : \A l \in before : l <= k
             IN  IF ContentOf(n) = ContentOf(batch[j]) THEN "duplicate" ELSE "updated"
        ELSE IF found = {} THEN "inserted"
        ELSE IF \E r \in found :
                   ContentOf(n) = IF n.kind = "FOLDER" THEN ContentOfFolder(r)
                                  ELSE ContentOfFile(r)
             THEN "duplicate"
             ELSE "updated"

Tallies(batch, rows) ==
    [ins |-> Cardinality({i \in 1..Len(batch) : TallyOf(batch, i, rows) = "inserted"}),
     dup |-> Cardinality({i \in 1..Len(batch) : TallyOf(batch, i, rows) = "duplicate"}),
     upd |-> Cardinality({i \in 1..Len(batch) : TallyOf(batch, i, rows) = "updated"}),
     dtd |-> 0]

\* insert_folders has counted and come to its log lines; insert_files has
\* counted and its commit went through
FoldersTallied ==
    pc \in {"folders_edges", "files_nodes", "files_edges", "done"} /\ FoldersLooped
FilesTallied == pc \in {"files_edges", "done"} /\ out.raised = None

\* C16: the tallies of insert_folders and insert_files.  Every record counts
\* for exactly one of inserted, duplicate and updated: inserted iff its id
\* has no row (of the kind of the batch) when it is processed, duplicate iff
\* the row has the record's content, 'updated' aside, and updated iff the
\* content differs.  The three add up to the length of the batch, deleted
\* is zero, and a folder of a new name alone counts as updated.
C16_Tallies ==
    /\ FoldersTallied
         => /\ out.folder_log = Tallies(call.folders, pre.folders)
            /\ out.folder_log.ins + out.folder_log.dup + out.folder_log.upd
                   = Len(call.folders)
    /\ FilesTallied
         => /\ out.file_log = Tallies(call.files, pre.files)
            /\ out.file_log.ins + out.file_log.dup + out.file_log.upd = Len(call.files)
    /\ out.folder_log.dtd = 0
    /\ out.file_log.dtd = 0
    /\ (/\ FoldersTallied
        /\ Len(call.folders) = 1
        /\ \E ef \in pre.folders :
              /\ ef.id = call.folders[1].id
              /\ ef.name # call.folders[1].name)
       => out.folder_log = [Tally0 EXCEPT !.upd = 1]

\* C16 happens: a stored folder gets a new name, and a batch has counted for
\* two tallies
C16_Witness ==
    /\ pc = "done"
    /\ call.op = "insert_folders"
    /\ Len(call.folders) = 2
    /\ call.folders[1].id # call.folders[2].id
    /\ \E ef \in pre.folders :
          /\ ef.id = call.folders[1].id
          /\ ef.name # call.folders[1].name
          /\ ef.modified = parse(call.folders[1].modifiedDate)
    /\ out.folder_log = [Tally0 EXCEPT !.upd = 1, !.ins = 1]

\* insert_folders has returned, to its caller or to insert_nodes
InsertFoldersOver ==
    \/ pc = "done" /\ call.op \in {"insert_folders", "insert_node"} /\ call.folders # <<>>
    \/ pc = "files_nodes"

\* C17: insert_folders updates a folder in place.  The edges from the folder
\* to children that are not in the batch, like every edge of a child that is
\* not in the batch, and the node rows of the ids that are not in the batch
\* are after the call what they were before it; the folder has one row, of
\* the new content.
C17_UpdateInPlace ==
    InsertFoldersOver
    => LET batch == NodeIds(Range(call.folders))
       IN  /\ \A id \in Ids \ batch :
                 /\ RowsUntouched(id)
                 /\ EdgesOf(parentage, id) = EdgesOf(pre.parentage, id)
           /\ \A e \in pre.parentage \cup parentage :
                 (e.parent \in batch /\ e.child \notin batch)
                 => e \in pre.parentage \cap parentage
           /\ files = pre.files
           /\ (FoldersLooped /\ ~out.rolled_back)
                => \A id \in batch : StoredAs(LastFor(call.folders, id), FolderStamp(id))

\* C17 happens: a stored folder with a child gets a new name
C17_Witness ==
    /\ pc = "done"
    /\ call.op = "insert_folders"
    /\ out.folder_log.upd = 1
    /\ Len(call.folders) = 1
    /\ \E ef \in pre.folders :
          /\ ef.id = call.folders[1].id
          /\ ef.name # call.folders[1].name
          /\ \E e \in pre.parentage :
                /\ e.parent = ef.id
                /\ e.child # ef.id
                /\ e.child \in StoredIds(pre.folders, pre.files)

\* C18: the node rows and the edges of a batch are committed in two
\* transactions, the rows first.  No step changes both; the step that
\* commits the rows of a batch leaves the edges alone and leads to the state
\* in which the edge rewrite is next; the edges change in that rewrite only.
C18_TwoTransactions ==
    [][/\ parentage' # parentage
            => /\ pc \in {"folders_edges", "files_edges"}
               /\ folders' = folders
               /\ files' = files
       /\ pc' \in {"folders_edges", "files_edges"}
            => /\ pc \in {"idle", "done", "files_nodes"}
               /\ parentage' = parentage
       /\ (folders' # folders \/ files' # files) /\ call'.op # "remove_purged"
            => pc' \in {"folders_edges", "files_edges"}]_vars

\* C18 happens: between the two commits a new node row is stored while the
\* edges of its id are those from before the call, not those of its payload
C18_Witness ==
    /\ pc \in {"folders_edges", "files_edges"}
    /\ \E n \in Range(IF pc = "folders_edges" THEN call.folders ELSE call.files) :
          /\ StoredAs(n, StampOf(n))
          /\ n.id \notin StoredIds(pre.folders, pre.files)
          /\ EdgesOf(parentage, n.id) = EdgesOf(pre.parentage, n.id)
          /\ EdgesOf(parentage, n.id) # EdgesFor(n.id, n.parents)

\* the records whose edges the step from this state rewrites
Rewritten ==
    IF pc = "folders_edges" THEN Range(call.folders)
    ELSE IF pc = "files_edges" THEN Range(call.files)
    ELSE {}

\* C19: the edge rewrite is one transaction.  In one step the committed edge
\* set of every child of the batch goes from what it was to the parents the
\* batch lists for it, never to a set with the old edges deleted and the new
\* ones missing, and the edges of every other child stay as they are.
C19_RewriteAtomic ==
    [][\A id \in Ids :
          IF id \in NodeIds(Rewritten)
          THEN EdgesOf(parentage', id)
                  = UNION {EdgesFor(id, n.parents) : n \in QueryById(Rewritten, id)}
          ELSE EdgesOf(parentage', id) = EdgesOf(parentage, id)]_vars

\* C19 happens: a rewrite has replaced the edges of a child by others while
\* another child has edges
C19_Witness ==
    /\ Returned
    /\ call.op \in {"insert_folders", "insert_files"}
    /\ Len(Upserted) = 1
    /\ EdgesOf(pre.parentage, Upserted[1].id) # {}
    /\ EdgesOf(parentage, Upserted[1].id) # {}
    /\ EdgesOf(pre.parentage, Upserted[1].id) \cap EdgesOf(parentage, Upserted[1].id) = {}
    /\ \E e \in parentage : e.child # Upserted[1].id

====
